---- MODULE Spec2Model ----
(***************************************************************************)
(* A model of conan-updater-bgfx.py: the YAML mapping merge                *)
(* (update_yaml_list), the embedded-table text patch                       *)
(* (update_bgfx_conanfile), the genie version matcher (get_genie_version)  *)
(* and the orchestration of main().                                        *)
(***************************************************************************)
EXTENDS Integers, Sequences, FiniteSets, TLC

VARIABLES
    yamlFile,      \* update_yaml_list: the serialized document on disk
    yamlBefore,    \* the serialized document before the call
    yamlArgs,      \* [list_name, new_data] of the call
    yamlResult,    \* "none" (not called), "ok", "KeyError"
    genieOut,      \* get_genie_version: what genie.exe wrote to stdout
    genieResult,   \* [rc, raised, version]: the outcome of the call
    conanfile,     \* update_bgfx_conanfile: the recipe text on disk
    conanBefore,   \* the recipe text read at line 72
    conanMid,      \* conanfile_content after the _bx_version step (line 88)
    patchArgs,     \* [bgfx_version, bx_version, bimg_version] of the call
    patchResult,   \* "none" (not called), "ok"
    pc,            \* main: the statement about to run, [op, repo]
    bgfx_sha,      \* args.bgfx_sha: 0 for None, else a commit of bgfx
    hist,          \* per repository, the commit times of its upstream history
    exists,        \* per repository, whether the local clone directory exists
    head,          \* per repository, the commit checked out (0: no clone)
    bgfx_timestamp,\* line 132: 0 stands for the empty string
    companion_sha, \* lines 133-134: bx_sha, bimg_sha; 0 for the empty string
    version,       \* lines 139-141: bx_version, bimg_version, bgfx_version
    commit,        \* lines 143-145: the result of rev-parse HEAD
    sha256,        \* lines 159-161: the repositories whose archive is hashed
    metadata,      \* per metadata file, the updates written to it so far
    failed,        \* the external commands that returned a nonzero status
    raised         \* "no", or the exception that ended the run

yamlVars == <<yamlFile, yamlBefore, yamlArgs, yamlResult>>

genieVars == <<genieOut, genieResult>>

patchVars == <<conanfile, conanBefore, conanMid, patchArgs, patchResult>>

mainVars == <<pc, bgfx_sha, hist, exists, head, bgfx_timestamp, companion_sha,
              version, commit, sha256, metadata, failed, raised>>

vars == <<yamlVars, genieVars, patchVars, mainVars>>

(***************************************************************************)
(* Bounds of the model.                                                    *)
(***************************************************************************)
MaxKey == 2          \* distinct version numbers used as mapping keys
MaxEntries == 2      \* entries of a section in an initial document
MaxOut == 8          \* characters genie.exe writes to stdout
MaxTableEntries == 2 \* entries of an embedded table in an initial recipe
MaxCommits == 2      \* commits in the history of a repository
MaxTime == 2         \* distinct commit times

(***************************************************************************)
(* Generic helpers.                                                        *)
(***************************************************************************)
Range(s) == {s[i] : i \in 1..Len(s)}

SeqsUpTo(S, n) == UNION {[1..m -> S] : m \in 0..n}

Min(S) == CHOOSE x \in S : \A y \in S : x <= y

(***************************************************************************)
(* Python values.  A dict is a sequence of [k, v] records with distinct    *)
(* keys, in insertion order.  A YAML key is an int (unquoted in the file)  *)
(* or a str (quoted); main() always passes str keys (f-strings).           *)
(***************************************************************************)
KeyNums == 9..(8 + MaxKey)
Keys == [t : {"int", "str"}, n : KeyNums]
Vals == {"v1", "v2"}
Entries == [k : Keys, v : Vals]

\* Top-level names of a config.yml / conandata.yml, in str order.
SectionNames == <<"patches", "sources", "versions">>
NameRank(name) == CHOOSE i \in 1..Len(SectionNames) : SectionNames[i] = name

DictKeys(d) == {d[i].k : i \in 1..Len(d)}
DictHas(d, k) == k \in DictKeys(d)
DictIndex(d, k) == CHOOSE i \in 1..Len(d) : d[i].k = k
DictGet(d, k) == d[DictIndex(d, k)].v

\* d[k] = v : an existing key keeps its position and takes the value, a new
\* key is appended.
DictSet(d, k, v) ==
    IF DictHas(d, k)
    THEN [d EXCEPT ![DictIndex(d, k)] = [k |-> k, v |-> v]]
    ELSE Append(d, [k |-> k, v |-> v])

RECURSIVE DictUpdate(_, _)
DictUpdate(d, items) ==
    IF items = <<>> THEN d
    ELSE DictUpdate(DictSet(d, Head(items).k, Head(items).v), Tail(items))

\* {**a, **b}
DictUnpack2(a, b) == DictUpdate(DictUpdate(<<>>, a), b)

(***************************************************************************)
(* yaml.safe_load / yaml.safe_dump.  The serialized document is a sequence *)
(* of sections [name, entries]; entries is the sequence of [k, v] lines of *)
(* the section in file order.                                              *)
(***************************************************************************)
RECURSIVE Digits(_)
Digits(n) == IF n < 10 THEN <<n>> ELSE Append(Digits(n \div 10), n % 10)

\* str < str of Python, on sequences of character codes
RECURSIVE LexLess(_, _)
LexLess(a, b) ==
    IF b = <<>> THEN FALSE
    ELSE IF a = <<>> THEN TRUE
    ELSE IF Head(a) # Head(b) THEN Head(a) < Head(b)
    ELSE LexLess(Tail(a), Tail(b))

\* key < key of Python, defined for keys of one type
KeyLess(a, b) ==
    IF a.t = "int" THEN a.n < b.n ELSE LexLess(Digits(a.n), Digits(b.n))

\* sorted() raises TypeError when it has to compare an int with a str
Sortable(d) == \A i, j \in 1..Len(d) : d[i].k.t = d[j].k.t

RECURSIVE SortedByKey(_)
SortedByKey(d) ==
    IF d = <<>> THEN <<>>
    ELSE LET i == CHOOSE i \in 1..Len(d) :
                      \A j \in 1..Len(d) : j = i \/ KeyLess(d[i].k, d[j].k)
         IN <<d[i]>> \o SortedByKey(SubSeq(d, 1, i - 1) \o SubSeq(d, i + 1, Len(d)))

\* represent_mapping: sort_keys defaults to True; on TypeError the insertion
\* order is kept
RepresentMapping(d) == IF Sortable(d) THEN SortedByKey(d) ELSE d

RECURSIVE SortedByName(_)
SortedByName(doc) ==
    IF doc = <<>> THEN <<>>
    ELSE LET i == CHOOSE i \in 1..Len(doc) :
                      \A j \in 1..Len(doc) :
                          j = i \/ NameRank(doc[i].k) < NameRank(doc[j].k)
         IN <<doc[i]>> \o SortedByName(SubSeq(doc, 1, i - 1) \o SubSeq(doc, i + 1, Len(doc)))

\* the parsed document: a dict from section name to a dict
SafeLoad(file) ==
    DictUpdate(<<>>, [i \in 1..Len(file) |->
        [k |-> file[i].name, v |-> DictUpdate(<<>>, file[i].entries)]])

SafeDump(data) ==
    LET top == SortedByName(data)
    IN [i \in 1..Len(top) |->
           [name |-> top[i].k, entries |-> RepresentMapping(top[i].v)]]

(***************************************************************************)
(* update_yaml_list(file_path, list_name, new_data)                        *)
(***************************************************************************)
\* a merge that forgets the existing entries: data[list_name] = new_data
MergedSectionDropsOld(new_data, section) == new_data

\* data[list_name] = {**new_data, **data[list_name]}
MergedSection(new_data, section) == DictUnpack2(new_data, section)

UpdateYamlListRaises(file, list_name) == ~DictHas(SafeLoad(file), list_name)

UpdateYamlList(file, list_name, new_data) ==
    LET data == SafeLoad(file)
    IN IF ~DictHas(data, list_name)
       THEN file        \* KeyError before the file is opened for writing
       ELSE SafeDump(DictSet(data, list_name,
                             MergedSection(new_data, DictGet(data, list_name))))

\* documents on disk: a named section with entries of distinct keys, and
\* possibly one other section before or after it
InjectiveEntries(n) ==
    {e \in SeqsUpTo(Entries, n) : \A i, j \in 1..Len(e) : e[i].k = e[j].k => i = j}

OtherSection == [name |-> "patches", entries |-> <<[k |-> [t |-> "str", n |-> 9], v |-> "v1"]>>]

ListNames == {"sources", "versions"}

InitialDocs ==
    LET secs == {[name |-> nm, entries |-> e] : nm \in ListNames, e \in InjectiveEntries(MaxEntries)}
    IN {<<s>> : s \in secs} \cup {<<s, OtherSection>> : s \in secs}
           \cup {<<OtherSection, s>> : s \in secs}

YamlIdle ==
    /\ yamlFile = <<>>
    /\ yamlBefore = <<>>
    /\ yamlArgs = [list_name |-> "none", new_data |-> <<>>]
    /\ yamlResult = "none"

YamlInit ==
    /\ yamlFile \in InitialDocs
    /\ yamlBefore = yamlFile
    /\ yamlArgs = [list_name |-> "none", new_data |-> <<>>]
    /\ yamlResult = "none"

UpdateYamlListCall(list_name, new_data) ==
    /\ yamlResult = "none"
    /\ yamlBefore' = yamlFile
    /\ yamlArgs' = [list_name |-> list_name, new_data |-> new_data]
    /\ yamlFile' = UpdateYamlList(yamlFile, list_name, new_data)
    /\ yamlResult' = IF UpdateYamlListRaises(yamlFile, list_name) THEN "KeyError" ELSE "ok"

YamlNext ==
    \E list_name \in ListNames, e \in Entries :
        UpdateYamlListCall(list_name, <<e>>)


(***************************************************************************)
(* Properties of update_yaml_list.                                         *)
(***************************************************************************)
YamlListName == yamlArgs.list_name
YamlNewKey == yamlArgs.new_data[1].k
YamlNewVal == yamlArgs.new_data[1].v

\* the lines of a section as they stand in a serialized document
FileSection(file, name) ==
    LET i == CHOOSE i \in 1..Len(file) : file[i].name = name
    IN file[i].entries
FileNames(file) == {file[i].name : i \in 1..Len(file)}
LinesFor(entries, k) == {i \in 1..Len(entries) : entries[i].k = k}

SectionBefore == FileSection(yamlBefore, YamlListName)
SectionAfter == FileSection(yamlFile, YamlListName)

\* C1 (as claimed): when the section already holds K, after the merge it
\* holds exactly one entry for K and that entry carries the new value.
C1_NewValueWins ==
    (yamlResult = "ok" /\ DictHas(SectionBefore, YamlNewKey)) =>
        /\ Cardinality(LinesFor(SectionAfter, YamlNewKey)) = 1
        /\ DictGet(SectionAfter, YamlNewKey) = YamlNewVal

\* C2 (as claimed): after the merge the new key is the first key of the
\* section in the serialized file.
C2_NewKeyFirstInFile ==
    yamlResult = "ok" => SectionAfter[1].k = YamlNewKey

\* C3: the merge keeps every other key of the section with its value, adds
\* no key but K, and keeps every other top-level section as it was.
C3_MergeFrame ==
    yamlResult = "ok" =>
        /\ \A k \in DictKeys(SectionBefore) \ {YamlNewKey} :
               /\ Cardinality(LinesFor(SectionAfter, k)) = 1
               /\ DictGet(SectionAfter, k) = DictGet(SectionBefore, k)
        /\ DictKeys(SectionAfter) = DictKeys(SectionBefore) \cup {YamlNewKey}
        /\ FileNames(yamlFile) = FileNames(yamlBefore)
        /\ Len(yamlFile) = Len(yamlBefore)
        /\ \A nm \in FileNames(yamlBefore) \ {YamlListName} :
               Range(FileSection(yamlFile, nm)) = Range(FileSection(yamlBefore, nm))

C3_Witness ==
    /\ yamlResult = "ok"
    /\ Len(yamlBefore) = 2
    /\ DictHas(SectionBefore, YamlNewKey)
    /\ DictKeys(SectionBefore) \ {YamlNewKey} # {}
    /\ yamlFile # yamlBefore

(***************************************************************************)
(* Python str operations, on sequences of characters.  "LF" is the newline *)
(* character, "1" a decimal digit, "v" any other printable character.      *)
(***************************************************************************)
Chars == {"1", ".", " ", "LF", "v"}
IsSpace(c) == c \in {" ", "LF"}
IsDigit(c) == c = "1"

RECURSIVE LStrip(_)
LStrip(s) == IF s # <<>> /\ IsSpace(Head(s)) THEN LStrip(Tail(s)) ELSE s

RECURSIVE RStrip(_)
RStrip(s) ==
    IF s # <<>> /\ IsSpace(s[Len(s)]) THEN RStrip(SubSeq(s, 1, Len(s) - 1)) ELSE s

\* s.strip()
Strip(s) == RStrip(LStrip(s))

\* s.split(sep): always at least one part
RECURSIVE Split(_, _)
Split(s, sep) ==
    IF \A i \in 1..Len(s) : s[i] # sep THEN <<s>>
    ELSE LET i == Min({j \in 1..Len(s) : s[j] = sep})
         IN <<SubSeq(s, 1, i - 1)>> \o Split(SubSeq(s, i + 1, Len(s)), sep)

\* s.count(c)
Count(s, c) == Cardinality({i \in 1..Len(s) : s[i] = c})

\* s.isdigit(): False for the empty string
IsDigitStr(s) == s # <<>> /\ \A i \in 1..Len(s) : IsDigit(s[i])

(***************************************************************************)
(* run_command and get_genie_version                                       *)
(***************************************************************************)
\* run_command's return value for a command that exited 0
RunCommandOutput(stdout) == Strip(stdout)

\* line 41: the test is made on the line as split, not on the trimmed line
LineIsVersion(line) ==
    /\ Count(line, ".") = 2
    /\ \A p \in Range(Split(line, ".")) : IsDigitStr(p)

GetGenieVersion(returncode, stdout) ==
    IF returncode # 0 THEN [raised |-> "CommandFailed", version |-> <<>>]
    ELSE LET output_lines == Split(Strip(RunCommandOutput(stdout)), "LF")
             hits == {i \in 1..Len(output_lines) : LineIsVersion(output_lines[i])}
         IN IF hits = {}
            THEN [raised |-> "VersionFormatNotFound", version |-> <<>>]
            ELSE [raised |-> "no", version |-> Strip(output_lines[Min(hits)])]

GenieNotCalled == [rc |-> 0, raised |-> "notcalled", version |-> <<>>]

GenieIdle == genieOut = <<>> /\ genieResult = GenieNotCalled

GenieInit == genieOut = <<>> /\ genieResult = GenieNotCalled

\* genie.exe writes one more character
GenieWrites(c) ==
    /\ genieResult = GenieNotCalled
    /\ Len(genieOut) < MaxOut
    /\ genieOut' = Append(genieOut, c)
    /\ UNCHANGED genieResult

\* genie.exe exits and get_genie_version returns or raises
GetGenieVersionCall(returncode) ==
    /\ genieResult = GenieNotCalled
    /\ genieResult' = [rc |-> returncode] @@ GetGenieVersion(returncode, genieOut)
    /\ UNCHANGED genieOut

GenieNext ==
    \/ \E c \in Chars : GenieWrites(c)
    \/ \E rc \in {0, 1} : GetGenieVersionCall(rc)

(***************************************************************************)
(* Properties of get_genie_version.                                        *)
(***************************************************************************)
\* a line qualifies when its trimmed content is three non-empty all-digit
\* groups joined by exactly two dots
LineQualifies(line) == LineIsVersion(Strip(line))

ClaimedGenieVersion(stdout) ==
    LET lines == Split(stdout, "LF")
        hits == {i \in 1..Len(lines) : LineQualifies(lines[i])}
    IN IF hits = {}
       THEN [raised |-> "VersionFormatNotFound", version |-> <<>>]
       ELSE [raised |-> "no", version |-> Strip(lines[Min(hits)])]

\* C6 (as claimed): get_genie_version returns the trimmed first line whose
\* trimmed content is a three-part dotted number, and raises the
\* version-format error exactly when no line qualifies.
C6_TrimmedLineMatcher ==
    (genieResult # GenieNotCalled /\ genieResult.rc = 0) =>
        /\ genieResult.raised = ClaimedGenieVersion(genieOut).raised
        /\ genieResult.version = ClaimedGenieVersion(genieOut).version

(***************************************************************************)
(* The recipe text, as a sequence of lexical pieces:                       *)
(*   bxsig    def _bx_version(self): return {     (the text the pattern of *)
(*            line 74 matches)                                             *)
(*   bimgsig  def _bimg_version(self): return {   (line 89)                *)
(*   entry    "k": "v"                                                     *)
(*   nl       a newline and twelve spaces                                  *)
(*   comma    ,                                                            *)
(*   close    the closing brace of a mapping literal                       *)
(*   other    any other text                                               *)
(* Two texts are byte-identical exactly when their piece sequences are     *)
(* equal.  Keys are sequences of characters.                               *)
(***************************************************************************)
Tok(t) == [t |-> t, k |-> <<>>, v |-> ""]
EntryTok(k, v) == [t |-> "entry", k |-> k, v |-> v]

VersionKeys == {<<"1", ".", "1">>, <<"1", "0", "1">>, <<"2", ".", "1">>}
TableVals == {"5", "6"}

\* re: the key part of the compiled pattern rf'"{bgfx_version}":...' against
\* the key of an entry.  bgfx_version is not escaped: each "." of it matches
\* any character.
KeyPatternMatches(bgfx_version, key) ==
    /\ Len(bgfx_version) = Len(key)
    /\ \A i \in 1..Len(key) : bgfx_version[i] = "." \/ bgfx_version[i] = key[i]

\* re.search(pattern, content): the end of the first match of a signature
SigFound(content, sig) == \E i \in 1..Len(content) : content[i].t = sig
SigEnd(content, sig) == Min({i \in 1..Len(content) : content[i].t = sig})

\* entry_pattern.search(content, start): the entries matched at or after
\* start, up to the end of the text
EntryMatches(content, start, bgfx_version) ==
    {j \in (start + 1)..Len(content) :
        content[j].t = "entry" /\ KeyPatternMatches(bgfx_version, content[j].k)}

\* lines 74-87 and 89-102: one copy of the step per accessor
PatchTable(content, sig, bgfx_version, companion_version) ==
    IF ~SigFound(content, sig) THEN content
    ELSE LET start == SigEnd(content, sig)
             hits == EntryMatches(content, start, bgfx_version)
         IN IF hits # {}
            THEN [content EXCEPT ![Min(hits)] = EntryTok(bgfx_version, companion_version)]
            ELSE SubSeq(content, 1, start)
                     \o <<Tok("nl"), EntryTok(bgfx_version, companion_version), Tok("comma")>>
                     \o SubSeq(content, start + 1, Len(content))

(***************************************************************************)
(* update_bgfx_conanfile(repo_dir, bgfx_version, bx_version, bimg_version) *)
(***************************************************************************)
RECURSIVE TableBody(_)
TableBody(entries) ==
    IF entries = <<>> THEN <<>>
    ELSE <<Tok("nl"), EntryTok(Head(entries).k, Head(entries).v), Tok("comma")>>
             \o TableBody(Tail(entries))

Accessor(sig, entries) == <<Tok(sig)>> \o TableBody(entries) \o <<Tok("close")>>

TableEntries ==
    {e \in SeqsUpTo([k : VersionKeys, v : TableVals], MaxTableEntries) :
        \A i, j \in 1..Len(e) : e[i].k = e[j].k => i = j}

\* recipes on disk: the two accessors in either order, one of them, or none
InitialRecipes ==
    LET bx == {Accessor("bxsig", e) : e \in TableEntries}
        bimg == {Accessor("bimgsig", e) : e \in TableEntries}
        o == <<Tok("other")>>
    IN {o \o a \o o \o b \o o : a \in bx, b \in bimg}
           \cup {o \o b \o o \o a \o o : a \in bx, b \in bimg}
           \cup {o \o a \o o : a \in bx \cup bimg}
           \cup {o}

NoPatchArgs == [bgfx_version |-> <<>>, bx_version |-> "", bimg_version |-> ""]

PatchIdle ==
    /\ conanfile = <<>>
    /\ conanBefore = <<>>
    /\ conanMid = <<>>
    /\ patchArgs = NoPatchArgs
    /\ patchResult = "none"

PatchInit ==
    /\ conanfile \in InitialRecipes
    /\ conanBefore = conanfile
    /\ conanMid = conanfile
    /\ patchArgs = NoPatchArgs
    /\ patchResult = "none"

UpdateBgfxConanfileCall(bgfx_version, bx_version, bimg_version) ==
    /\ patchResult = "none"
    /\ conanBefore' = conanfile
    /\ patchArgs' = [bgfx_version |-> bgfx_version, bx_version |-> bx_version,
                     bimg_version |-> bimg_version]
    /\ conanMid' = PatchTable(conanfile, "bxsig", bgfx_version, bx_version)
    /\ conanfile' = PatchTable(conanMid', "bimgsig", bgfx_version, bimg_version)
    /\ patchResult' = "ok"

PatchNext ==
    \E bgfx_version \in VersionKeys, bx_version \in TableVals, bimg_version \in TableVals :
        UpdateBgfxConanfileCall(bgfx_version, bx_version, bimg_version)

(***************************************************************************)
(* Properties of update_bgfx_conanfile.  An accessor region is the text    *)
(* from the end of the accessor's signature to the closing brace of its    *)
(* mapping literal.                                                        *)
(***************************************************************************)
RegionClose(content, sig) ==
    Min({i \in (SigEnd(content, sig) + 1)..Len(content) : content[i].t = "close"})
Region(content, sig) == (SigEnd(content, sig) + 1)..(RegionClose(content, sig) - 1)
\* the entries of the region keyed exactly by key
RegionEntriesFor(content, sig, key) ==
    {i \in Region(content, sig) : content[i].t = "entry" /\ content[i].k = key}
\* the text outside the region: up to the signature, and from the brace on
Outside(content, sig) ==
    <<SubSeq(content, 1, SigEnd(content, sig)),
      SubSeq(content, RegionClose(content, sig), Len(content))>>

InsertionHolds(pre, post, sig, key, val) ==
    (SigFound(pre, sig) /\ RegionEntriesFor(pre, sig, key) = {}) =>
        /\ Cardinality(RegionEntriesFor(post, sig, key)) = 1
        /\ \A i \in RegionEntriesFor(post, sig, key) : post[i].v = val
        /\ Outside(post, sig) = Outside(pre, sig)

\* C4 (as claimed): when a region holds no entry for the primary version,
\* its step leaves exactly one entry "P1": "C1" in the region and every
\* byte outside the region as it was, whatever the other region contains.
C4_InsertionInsideRegion ==
    patchResult = "ok" =>
        /\ InsertionHolds(conanBefore, conanMid, "bxsig",
                          patchArgs.bgfx_version, patchArgs.bx_version)
        /\ InsertionHolds(conanMid, conanfile, "bimgsig",
                          patchArgs.bgfx_version, patchArgs.bimg_version)

ReplacementHolds(pre, post, sig, key, val) ==
    (SigFound(pre, sig) /\ RegionEntriesFor(pre, sig, key) # {}) =>
        /\ Cardinality(RegionEntriesFor(post, sig, key)) = 1
        /\ \A i \in RegionEntriesFor(post, sig, key) : post[i].v = val

\* C5 (as claimed): when a region already holds an entry for the primary
\* version, its step leaves exactly one entry keyed by it, with the new
\* value, in both regions.
C5_ReplacementNoDuplicate ==
    patchResult = "ok" =>
        /\ ReplacementHolds(conanBefore, conanMid, "bxsig",
                            patchArgs.bgfx_version, patchArgs.bx_version)
        /\ ReplacementHolds(conanMid, conanfile, "bimgsig",
                            patchArgs.bgfx_version, patchArgs.bimg_version)

ExactKeyHolds(pre, post, sig, key, val) ==
    SigFound(pre, sig) =>
        \* a piece is rewritten only if it is an entry of the region keyed
        \* exactly by the primary version
        /\ Len(post) = Len(pre) =>
               \A i \in 1..Len(pre) :
                   post[i] # pre[i] => i \in RegionEntriesFor(pre, sig, key)
        \* with no such entry in the region, a new entry is inserted
        /\ RegionEntriesFor(pre, sig, key) = {} =>
               post = SubSeq(pre, 1, SigEnd(pre, sig))
                          \o <<Tok("nl"), EntryTok(key, val), Tok("comma")>>
                          \o SubSeq(pre, SigEnd(pre, sig) + 1, Len(pre))

\* C9 (as claimed): an entry is replaced only if its key equals the primary
\* version exactly and it lies in the region being patched; otherwise a new
\* entry is inserted.
C9_ExactKeyInRegion ==
    patchResult = "ok" =>
        /\ ExactKeyHolds(conanBefore, conanMid, "bxsig",
                         patchArgs.bgfx_version, patchArgs.bx_version)
        /\ ExactKeyHolds(conanMid, conanfile, "bimgsig",
                         patchArgs.bgfx_version, patchArgs.bimg_version)

(***************************************************************************)
(* main(): the three repositories, the external commands and the seven     *)
(* metadata files.  A commit is named by its position in the history of    *)
(* its repository; hist[r][i] is its commit time.                          *)
(***************************************************************************)
Repos == {"bx", "bimg", "bgfx"}
Companions == {"bx", "bimg"}

At(op, repo) == [op |-> op, repo |-> repo]

\* the statements of main() in program order
MainOrder ==
    << At("clone", "bx"), At("clone", "bimg"), At("restore", "bgfx"),
       At("clone", "bgfx"), At("checkout_sha", "bgfx"),
       At("log_timestamp", "bgfx"), At("log_before", "bx"), At("log_before", "bimg"),
       At("checkout", "bx"), At("checkout", "bimg"),
       At("rev_count", "bx"), At("rev_count", "bimg"), At("genie", "bgfx"),
       At("rev_parse", "bx"), At("rev_parse", "bimg"), At("rev_parse", "bgfx"),
       At("download", "bx"), At("download", "bimg"), At("download", "bgfx"),
       At("sha256", "bx"), At("sha256", "bimg"), At("sha256", "bgfx"),
       At("config", "bx"), At("config", "bimg"), At("config", "bgfx"),
       At("conandata", "bx"), At("conandata", "bimg"), At("conandata", "bgfx"),
       At("conanfile", "bgfx"), At("done", "bgfx") >>

Position(at) == CHOOSE i \in 1..Len(MainOrder) : MainOrder[i] = at
After(at) == MainOrder[Position(at) + 1]
Aborted == At("aborted", "bgfx")

MetadataFiles ==
    {At("config", r) : r \in Repos} \cup {At("conandata", r) : r \in Repos}
        \cup {At("conanfile", "bgfx")}

\* what genie.exe may print
GenieOutputs == {<<"1", ".", "1", ".", "1">>, <<"v", "1", ".", "1", ".", "1">>}

\* upstream histories: commit times never decrease along a history
Histories ==
    {h \in SeqsUpTo(1..MaxTime, MaxCommits) :
        Len(h) >= 1 /\ \A i \in 1..(Len(h) - 1) : h[i] <= h[i + 1]}

\* git log -1 --format=%H --before=T from HEAD: the most recent commit whose
\* commit time is at or before T (0 when there is none: empty output)
LogBefore(times, from, T) ==
    LET ok == {i \in 1..from : times[i] <= T}
    IN IF ok = {} THEN 0 ELSE CHOOSE i \in ok : \A j \in ok : j <= i

MainIdle ==
    /\ pc = At("done", "bgfx")
    /\ bgfx_sha = 0
    /\ hist = [r \in Repos |-> <<1>>]
    /\ exists = [r \in Repos |-> TRUE]
    /\ head = [r \in Repos |-> 1]
    /\ bgfx_timestamp = 0
    /\ companion_sha = [r \in Companions |-> 0]
    /\ version = [r \in Repos |-> <<>>]
    /\ commit = [r \in Repos |-> 0]
    /\ sha256 = {}
    /\ metadata = [f \in MetadataFiles |-> <<>>]
    /\ failed = {}
    /\ raised = "no"

MainInit ==
    /\ pc = MainOrder[1]
    /\ hist \in [Repos -> Histories]
    /\ bgfx_sha \in 0..Len(hist["bgfx"])
    /\ exists \in [Repos -> BOOLEAN]
    \* where an existing clone stands matters to no statement: git pull
    \* moves it to the tip
    /\ head = [r \in Repos |-> IF exists[r] THEN 1 ELSE 0]
    /\ bgfx_timestamp = 0
    /\ companion_sha = [r \in Companions |-> 0]
    /\ version = [r \in Repos |-> <<>>]
    /\ commit = [r \in Repos |-> 0]
    /\ sha256 = {}
    /\ metadata = [f \in MetadataFiles |-> <<>>]
    /\ failed = {}
    /\ raised = "no"

\* run_command, lines 11-12: a nonzero status raises and ends the run
Raise(tool, what) ==
    /\ pc' = Aborted
    /\ failed' = failed \cup {[tool |-> tool, at |-> pc]}
    /\ raised' = what

\* lines 24-27: git pull in an existing clone, git clone otherwise
CloneOrPull(r, returncode) ==
    /\ pc = At("clone", r)
    /\ IF returncode # 0
       THEN Raise("git", "CommandFailed") /\ UNCHANGED <<exists, head>>
       ELSE /\ exists' = [exists EXCEPT ![r] = TRUE]
            /\ head' = [head EXCEPT ![r] = Len(hist[r])]
            /\ pc' = IF r = "bgfx" /\ bgfx_sha = 0 THEN At("rev_count", "bx") ELSE After(pc)
            /\ UNCHANGED <<failed, raised>>
    /\ UNCHANGED <<bgfx_sha, hist, bgfx_timestamp, companion_sha, version, commit,
                   sha256, metadata>>

\* lines 127-128: git checkout -- src/version.h when the bgfx clone exists
RestoreVersionH(returncode) ==
    /\ pc = At("restore", "bgfx")
    /\ IF exists["bgfx"] /\ returncode # 0
       THEN Raise("git", "CommandFailed")
       ELSE pc' = After(pc) /\ UNCHANGED <<failed, raised>>
    /\ UNCHANGED <<bgfx_sha, hist, exists, head, bgfx_timestamp, companion_sha,
                   version, commit, sha256, metadata>>

\* lines 29-30: git checkout sha (reached only with --bgfx-sha)
CheckoutSha(returncode) ==
    /\ pc = At("checkout_sha", "bgfx")
    /\ IF returncode # 0
       THEN Raise("git", "CommandFailed") /\ UNCHANGED head
       ELSE /\ head' = [head EXCEPT !["bgfx"] = bgfx_sha]
            /\ pc' = After(pc)
            /\ UNCHANGED <<failed, raised>>
    /\ UNCHANGED <<bgfx_sha, hist, exists, bgfx_timestamp, companion_sha, version,
                   commit, sha256, metadata>>

\* lines 15-17 and 132: subprocess.run without a check of the status; a
\* failed git log prints nothing to stdout
GetCommitTimestamp(returncode) ==
    /\ pc = At("log_timestamp", "bgfx")
    /\ bgfx_timestamp' = IF returncode = 0 THEN hist["bgfx"][head["bgfx"]] ELSE 0
    /\ failed' = IF returncode = 0 THEN failed
                 ELSE failed \cup {[tool |-> "git", at |-> pc]}
    /\ pc' = After(pc)
    /\ UNCHANGED <<bgfx_sha, hist, exists, head, companion_sha, version, commit,
                   sha256, metadata, raised>>

\* lines 19-21 and 133-134: subprocess.run without a check of the status.
\* With an empty timestamp the argument is "--before=", which names no
\* date: any commit of the history, or none, may come out.
GetCommitHashAtTimestamp(r, returncode, any) ==
    /\ pc = At("log_before", r)
    /\ companion_sha' = [companion_sha EXCEPT ![r] =
           IF returncode # 0 THEN 0
           ELSE IF bgfx_timestamp = 0 THEN any
           ELSE LogBefore(hist[r], head[r], bgfx_timestamp)]
    /\ failed' = IF returncode = 0 THEN failed
                 ELSE failed \cup {[tool |-> "git", at |-> pc]}
    /\ pc' = After(pc)
    /\ UNCHANGED <<bgfx_sha, hist, exists, head, bgfx_timestamp, version, commit,
                   sha256, metadata, raised>>

\* lines 136-137: git checkout of the companion revision; git refuses an
\* empty revision
CheckoutCompanion(r, returncode) ==
    /\ pc = At("checkout", r)
    /\ IF returncode # 0 \/ companion_sha[r] = 0
       THEN Raise("git", "CommandFailed") /\ UNCHANGED head
       ELSE /\ head' = [head EXCEPT ![r] = companion_sha[r]]
            /\ pc' = After(pc)
            /\ UNCHANGED <<failed, raised>>
    /\ UNCHANGED <<bgfx_sha, hist, exists, bgfx_timestamp, companion_sha, version,
                   commit, sha256, metadata>>

\* lines 32-33 and 139-140: git rev-list --count HEAD
GetRevisionCount(r, returncode) ==
    /\ pc = At("rev_count", r)
    /\ IF returncode # 0
       THEN Raise("git", "CommandFailed") /\ UNCHANGED version
       ELSE /\ version' = [version EXCEPT ![r] = <<head[r]>>]
            /\ pc' = After(pc)
            /\ UNCHANGED <<failed, raised>>
    /\ UNCHANGED <<bgfx_sha, hist, exists, head, bgfx_timestamp, companion_sha,
                   commit, sha256, metadata>>

\* line 141: get_genie_version
MainGenieVersion(returncode, stdout) ==
    /\ pc = At("genie", "bgfx")
    /\ LET got == GetGenieVersion(returncode, stdout)
       IN IF got.raised # "no"
          THEN /\ pc' = Aborted
               /\ raised' = got.raised
               /\ failed' = IF returncode = 0 THEN failed
                            ELSE failed \cup {[tool |-> "genie", at |-> pc]}
               /\ UNCHANGED version
          ELSE /\ version' = [version EXCEPT !["bgfx"] = got.version]
               /\ pc' = After(pc)
               /\ UNCHANGED <<failed, raised>>
    /\ UNCHANGED <<bgfx_sha, hist, exists, head, bgfx_timestamp, companion_sha,
                   commit, sha256, metadata>>

\* lines 143-145: git rev-parse HEAD
RevParse(r, returncode) ==
    /\ pc = At("rev_parse", r)
    /\ IF returncode # 0
       THEN Raise("git", "CommandFailed") /\ UNCHANGED commit
       ELSE /\ commit' = [commit EXCEPT ![r] = head[r]]
            /\ pc' = After(pc)
            /\ UNCHANGED <<failed, raised>>
    /\ UNCHANGED <<bgfx_sha, hist, exists, head, bgfx_timestamp, companion_sha,
                   version, sha256, metadata>>

\* lines 45-49 and 155-157: curl unless the archive is already there
DownloadFile(r, cached, returncode) ==
    /\ pc = At("download", r)
    /\ IF ~cached /\ returncode # 0
       THEN Raise("curl", "DownloadFailed")
       ELSE pc' = After(pc) /\ UNCHANGED <<failed, raised>>
    /\ UNCHANGED <<bgfx_sha, hist, exists, head, bgfx_timestamp, companion_sha,
                   version, commit, sha256, metadata>>

\* lines 51-56 and 159-161
CalculateSha256(r) ==
    /\ pc = At("sha256", r)
    /\ sha256' = sha256 \cup {r}
    /\ pc' = After(pc)
    /\ UNCHANGED <<bgfx_sha, hist, exists, head, bgfx_timestamp, companion_sha,
                   version, commit, metadata, failed, raised>>

\* lines 171-177: update_yaml_list on a config.yml or a conandata.yml; it
\* raises KeyError, leaving the file as it was, when the section is missing
MainUpdateYamlList(op, r, section_missing) ==
    /\ op \in {"config", "conandata"}
    /\ pc = At(op, r)
    /\ IF section_missing
       THEN /\ pc' = Aborted
            /\ raised' = "KeyError"
            /\ UNCHANGED <<metadata, failed>>
       ELSE /\ metadata' = [metadata EXCEPT ![At(op, r)] =
                   Append(@, [key |-> version[r], commit |-> commit[r]])]
            /\ pc' = After(pc)
            /\ UNCHANGED <<failed, raised>>
    /\ UNCHANGED <<bgfx_sha, hist, exists, head, bgfx_timestamp, companion_sha,
                   version, commit, sha256>>

\* line 179: update_bgfx_conanfile
MainUpdateBgfxConanfile ==
    /\ pc = At("conanfile", "bgfx")
    /\ metadata' = [metadata EXCEPT ![At("conanfile", "bgfx")] =
           Append(@, [key |-> version["bgfx"], bx |-> version["bx"],
                      bimg |-> version["bimg"]])]
    /\ pc' = After(pc)
    /\ UNCHANGED <<bgfx_sha, hist, exists, head, bgfx_timestamp, companion_sha,
                   version, commit, sha256, failed, raised>>

MainNext ==
    \/ \E r \in Repos, rc \in {0, 1} : CloneOrPull(r, rc)
    \/ \E rc \in {0, 1} : RestoreVersionH(rc)
    \/ \E rc \in {0, 1} : CheckoutSha(rc)
    \/ \E rc \in {0, 1} : GetCommitTimestamp(rc)
    \/ \E r \in Companions, rc \in {0, 1}, any \in 0..MaxCommits :
           any <= head[r] /\ GetCommitHashAtTimestamp(r, rc, any)
    \/ \E r \in Companions, rc \in {0, 1} : CheckoutCompanion(r, rc)
    \/ \E r \in Companions, rc \in {0, 1} : GetRevisionCount(r, rc)
    \/ \E rc \in {0, 1}, out \in GenieOutputs : MainGenieVersion(rc, out)
    \/ \E r \in Repos, rc \in {0, 1} : RevParse(r, rc)
    \/ \E r \in Repos, cached \in BOOLEAN, rc \in {0, 1} : DownloadFile(r, cached, rc)
    \/ \E r \in Repos : CalculateSha256(r)
    \/ \E op \in {"config", "conandata"}, r \in Repos, missing \in BOOLEAN :
           MainUpdateYamlList(op, r, missing)
    \/ MainUpdateBgfxConanfile

(***************************************************************************)
(* Properties of main().                                                   *)
(***************************************************************************)
GitFailures == {f \in failed : f.tool = "git"}
Reached(at) == pc # Aborted /\ Position(pc) >= Position(at)
NothingWritten == \A f \in MetadataFiles : metadata[f] = <<>>

\* C7 (as claimed): a git invocation that returns a nonzero status ends
\* the run there; no later statement runs.
C7_GitFailureIsFatal == GitFailures # {} => pc = Aborted

\* C8 (as claimed): in every run, when the versions are derived each
\* companion is checked out at its most recent commit whose commit time is
\* at or before the commit time of the revision the primary repository is
\* positioned at.
C8_CompanionsCorrelated ==
    Reached(At("rev_count", "bx")) =>
        \A r \in Companions :
            head[r] = LogBefore(hist[r], Len(hist[r]), hist["bgfx"][head["bgfx"]])

\* C10 (as claimed): a metadata file is written only after the three
\* repositories are synchronized, the versions derived and the archives
\* hashed; and if a command of the synchronization, the version derivation
\* or a download fails, no metadata file is written.
C10_PatchLast ==
    /\ ~NothingWritten =>
           /\ \A r \in Repos : head[r] # 0 /\ version[r] # <<>> /\ commit[r] # 0
           /\ sha256 = Repos
    /\ (failed # {} \/ raised = "VersionFormatNotFound") => NothingWritten

(***************************************************************************)
(* Specifications: one per operation under study.                          *)
(***************************************************************************)
InitYaml == YamlInit /\ GenieIdle /\ PatchIdle /\ MainIdle
NextYamlStep == YamlNext /\ UNCHANGED <<genieVars, patchVars, mainVars>>
SpecYaml == InitYaml /\ [][NextYamlStep]_vars

InitGenie == GenieInit /\ YamlIdle /\ PatchIdle /\ MainIdle
NextGenieStep == GenieNext /\ UNCHANGED <<yamlVars, patchVars, mainVars>>
SpecGenie == InitGenie /\ [][NextGenieStep]_vars

InitPatch == PatchInit /\ YamlIdle /\ GenieIdle /\ MainIdle
NextPatchStep == PatchNext /\ UNCHANGED <<yamlVars, genieVars, mainVars>>
SpecPatch == InitPatch /\ [][NextPatchStep]_vars

InitMain == MainInit /\ YamlIdle /\ GenieIdle /\ PatchIdle
NextMainStep == MainNext /\ UNCHANGED <<yamlVars, genieVars, patchVars>>
SpecMain == InitMain /\ [][NextMainStep]_vars

====
